---- MODULE Spec2Model ----
(***************************************************************************)
(* Option pricing, implied volatility, GBM path simulation and PnL of the  *)
(* quant_options package.                                                   *)
(*                                                                         *)
(* Numbers.  Python floats are modelled as fixed-point integers:           *)
(*   - dimensionless quantities (sigma, r, q, T, d1, d2, cdf, pdf,         *)
(*     discount factors, shocks) in units of 1/ONE;                        *)
(*   - prices (S, K, S0, premiums, simulated prices, PnL) in cents;        *)
(*   - option values of the pricer, and the quoted market prices the       *)
(*     solver compares them with, in units of 1/PriceUnit cent, every      *)
(*     product rounded to that grid.                                       *)
(* The library functions the code calls (np.log, np.exp, np.sqrt,          *)
(* norm.cdf, norm.pdf, scipy's newton and brentq, np.random.normal) are    *)
(* modelled by what they compute, at this resolution.                      *)
(***************************************************************************)
EXTENDS Integers, Sequences, FiniteSets, TLC

VARIABLES pc, args, result, locals, nt, log, rng, calls

vars == <<pc, args, result, locals, nt, log, rng, calls>>

\* A variable the operation under analysis does not use, or has not set yet.
Null == [kind |-> "null"]

(***************************************************************************)
(* Fixed-point arithmetic                                                  *)
(***************************************************************************)
\* The fixed-point unit: 1.0 is ONE.
ONE == 10000

Abs(x) == IF x < 0 THEN -x ELSE x
Sgn(x) == IF x < 0 THEN -1 ELSE IF x > 0 THEN 1 ELSE 0
Max(a, b) == IF a >= b THEN a ELSE b
Min(a, b) == IF a <= b THEN a ELSE b

\* Integer quotient rounded toward zero (b # 0).
TDiv(a, b) == Sgn(a) * Sgn(b) * (Abs(a) \div Abs(b))

\* a * b / ONE, the larger factor split so that no 32-bit product overflows.
FMul(a, b) ==
    LET hi == Max(Abs(a), Abs(b))
        lo == Min(Abs(a), Abs(b))
    IN  Sgn(a) * Sgn(b) * ((hi \div ONE) * lo + ((hi % ONE) * lo) \div ONE)

\* <<quotient, remainder>> of a * b / c for a, b >= 0 and c > 0, the quotient
\* saturated at sat; computed bit by bit of b without overflow.
RECURSIVE MulDivNat(_, _, _, _)
MulDivNat(a, b, c, sat) ==
    IF b = 0 THEN <<0, 0>>
    ELSE LET h  == MulDivNat(a, b \div 2, c, sat)
             od == b % 2
             r2 == 2 * h[2] + od * (a % c)
             q2 == 2 * h[1] + od * (a \div c) + r2 \div c
         IN  <<Min(sat, q2), r2 % c>>

\* a * b / c rounded toward zero and saturated at +-sat (c # 0).
MulDivSat(a, b, c, sat) ==
    Sgn(a) * Sgn(b) * Sgn(c) * MulDivNat(Abs(a), Abs(b), Abs(c), sat)[1]

\* a / b in fixed point (b # 0), for |a| * ONE within 32 bits.
FDiv(a, b) == TDiv(a * ONE, b)

\* floor(sqrt(n)) for n >= 0, by bisection on [lo, hi).
RECURSIVE ISqrtIn(_, _, _)
ISqrtIn(n, lo, hi) ==
    IF hi - lo <= 1 THEN lo
    ELSE LET m == (lo + hi) \div 2
         IN  IF m * m <= n THEN ISqrtIn(n, m, hi) ELSE ISqrtIn(n, lo, m)

\* np.sqrt(x) for x >= 0; of a negative number numpy returns nan, which the
\* callers below never use (the one caller that can pass it multiplies the
\* result into an empty array).
Sqrt(x) == IF x < 0 THEN 0 ELSE ISqrtIn(x * ONE, 0, 46341)

\* ln 2.
LN2 == 6931

\* np.log(y) for y near 1: 2 * atanh((y - 1) / (y + 1)), four terms.
LnSeries(y) ==
    LET z  == FDiv(y - ONE, y + ONE)
        z2 == FMul(z, z)
        z3 == FMul(z, z2)
        z5 == FMul(z3, z2)
        z7 == FMul(z5, z2)
    IN  2 * (z + TDiv(z3, 3) + TDiv(z5, 5) + TDiv(z7, 7))

\* np.log(y) for y > 0, reduced to [0.75, 1.5] by factors of two.
RECURSIVE Ln(_)
Ln(y) ==
    IF y > 15000 THEN LN2 + Ln(y \div 2)
    ELSE IF y < 7500 THEN Ln(2 * y) - LN2
    ELSE LnSeries(y)

\* np.exp(x) for |x| <= 0.5: Taylor polynomial of degree five.
ExpSeries(x) ==
    LET x2 == FMul(x, x)
        x3 == FMul(x2, x)
        x4 == FMul(x3, x)
        x5 == FMul(x4, x)
    IN  ONE + x + TDiv(x2, 2) + TDiv(x3, 6) + TDiv(x4, 24) + TDiv(x5, 120)

\* np.exp(x), by exp(x) = exp(x/2)^2 down to |x| <= 0.5.
RECURSIVE Exp(_)
Exp(x) ==
    IF Abs(x) > 5000
    THEN LET h == Exp(TDiv(x, 2)) IN FMul(h, h)
    ELSE ExpSeries(x)

\* Grid step of the cdf table: 0.05.
PhiStep == 500

\* norm.cdf on the grid 0, 0.05, ..., 4.05 (entry i + 1 is the cdf at i * 0.05).
PhiTab ==
    << 5000, 5199, 5398, 5596, 5793, 5987, 6179, 6368, 6554, 6736,
       6915, 7088, 7257, 7422, 7580, 7734, 7881, 8023, 8159, 8289,
       8413, 8531, 8643, 8749, 8849, 8944, 9032, 9115, 9192, 9265,
       9332, 9394, 9452, 9505, 9554, 9599, 9641, 9678, 9713, 9744,
       9772, 9798, 9821, 9842, 9861, 9878, 9893, 9906, 9918, 9929,
       9938, 9946, 9953, 9960, 9965, 9970, 9974, 9978, 9981, 9984,
       9987, 9989, 9990, 9992, 9993, 9994, 9995, 9996, 9997, 9997,
       9998, 9998, 9998, 9999, 9999, 9999, 9999, 9999, 10000, 10000,
       10000, 10000 >>

\* norm.cdf(d) for d >= 0: linear interpolation in the table, 1 beyond it.
NormCdfPos(d) ==
    IF d >= 4 * ONE THEN ONE
    ELSE LET i == d \div PhiStep
             f == d % PhiStep
         IN  PhiTab[i + 1] + ((PhiTab[i + 2] - PhiTab[i + 1]) * f) \div PhiStep

\* norm.cdf(d).
NormCdf(d) == IF d >= 0 THEN NormCdfPos(d) ELSE ONE - NormCdfPos(-d)

\* 1 / sqrt(2 pi).
InvSqrt2Pi == 3989

\* norm.pdf(d) = exp(-d^2 / 2) / sqrt(2 pi); it underflows to 0 for large |d|.
NormPdf(d) == FMul(InvSqrt2Pi, Exp(-TDiv(FMul(d, d), 2)))

(***************************************************************************)
(* Outcomes of a call: a returned value or a raised exception              *)
(***************************************************************************)
Raise(exc, at) == [kind |-> "raise", exc |-> exc, at |-> at]

Raised(res) == res.kind = "raise"

Returned(res) == res.kind = "return"

(***************************************************************************)
(* pricing.py: black_scholes_option_price                                  *)
(***************************************************************************)
\* Largest sigma whose square the number type holds: beyond it sigma ** 2
\* raises OverflowError, as a Python float does beyond about 1.3e154.
SigmaMax == 200000

\* Magnitude at which d1 saturates (the model's infinity for a quotient).
DMax == 200000

\* Grid of the computed prices: S and K are given in cents, a computed price
\* is carried in 1 / PriceUnit of a cent, and every product is rounded to that
\* grid as a float product is rounded to its 53 bits.
PriceUnit == 100

\* S * np.exp(-q * T)
DiscountedSpot(S, q, T) == FMul(S * PriceUnit, Exp(-FMul(q, T)))

\* K * np.exp(-r * T)
DiscountedStrike(K, r, T) == FMul(K * PriceUnit, Exp(-FMul(r, T)))

\* d1 = (np.log(S / K) + (r - q + 0.5 * sigma ** 2) * T) / (sigma * np.sqrt(T));
\* a quotient too large for the number type, or by a denominator that
\* underflowed to 0, is +-DMax.
Quotient(num, den) ==
    IF den = 0 THEN Sgn(num) * DMax ELSE MulDivSat(num, ONE, den, DMax)

D1(S, K, r, q, T, sigma) ==
    Quotient(Ln(FDiv(S, K)) + FMul(r - q + TDiv(FMul(sigma, sigma), 2), T),
             FMul(sigma, Sqrt(T)))

\* d2 = d1 - sigma * np.sqrt(T)
D2(d1, T, sigma) == d1 - FMul(sigma, Sqrt(T))

\* call_price = S e^(-qT) cdf(d1) - K e^(-rT) cdf(d2)
CallPrice(S, K, r, q, T, d1, d2) ==
    FMul(DiscountedSpot(S, q, T), NormCdf(d1))
      - FMul(DiscountedStrike(K, r, T), NormCdf(d2))

\* A put formula that takes the cdf at d2 and d1 instead of -d2 and -d1.
PutPriceUnsigned(S, K, r, q, T, d1, d2) ==
    FMul(DiscountedStrike(K, r, T), NormCdf(d2))
      - FMul(DiscountedSpot(S, q, T), NormCdf(d1))

\* put_price = K e^(-rT) cdf(-d2) - S e^(-qT) cdf(-d1)
PutPrice(S, K, r, q, T, d1, d2) ==
    FMul(DiscountedStrike(K, r, T), NormCdf(-d2))
      - FMul(DiscountedSpot(S, q, T), NormCdf(-d1))

\* A guard that lets sigma = 0 through.
InvalidPricerArgsLax(S, K, T, sigma) == T <= 0 \/ sigma < 0 \/ S <= 0 \/ K <= 0

\* The guard of the function: which arguments it rejects.
InvalidPricerArgs(S, K, T, sigma) == T <= 0 \/ sigma <= 0 \/ S <= 0 \/ K <= 0

\* return call_price, put_price
PricePair(S, K, r, q, T, d1, d2) ==
    [kind |-> "return",
     call |-> CallPrice(S, K, r, q, T, d1, d2),
     put  |-> PutPrice(S, K, r, q, T, d1, d2)]

\* The body of the function past its guard, from d1 on.
PricesFromD1(S, K, r, q, T, sigma, d1) ==
    PricePair(S, K, r, q, T, d1, D2(d1, T, sigma))

black_scholes_option_price(S, K, r, q, T, sigma) ==
    IF InvalidPricerArgs(S, K, T, sigma)
    THEN Raise("ValueError", "black_scholes_option_price")
    ELSE IF sigma > SigmaMax
    THEN Raise("OverflowError", "black_scholes_option_price")
    ELSE PricesFromD1(S, K, r, q, T, sigma, D1(S, K, r, q, T, sigma))

(***************************************************************************)
(* Specification of one call of the pricer                                 *)
(***************************************************************************)
PricerS     == {-10000, 0, 10000}
PricerK     == {0, 9000, 10000, 10400}
PricerR     == {0, 400}
PricerQ     == {0, 200}
PricerT     == {-10000, 0, 2500, 10000}
PricerSigma == {-1000, 0, 1, 2000, 50000, SigmaMax, SigmaMax + 1}

PricerArgs == [S : PricerS, K : PricerK, r : PricerR, q : PricerQ,
               T : PricerT, sigma : PricerSigma]

InitPricer ==
    /\ pc = "pricer_call"
    /\ args \in PricerArgs
    /\ result = Null
    /\ locals = Null /\ nt = Null /\ log = Null /\ rng = Null /\ calls = Null

\* The caller invokes black_scholes_option_price(S, K, r, q, T, sigma).
PricerCall ==
    /\ pc = "pricer_call"
    /\ result' = black_scholes_option_price(args.S, args.K, args.r, args.q,
                                            args.T, args.sigma)
    /\ pc' = "pricer_done"
    /\ UNCHANGED <<args, locals, nt, log, rng, calls>>

NextPricer == PricerCall

SpecPricer == InitPricer /\ [][NextPricer]_vars

(***************************************************************************)
(* Properties of the pricer                                                *)
(***************************************************************************)
PricerArgsPositive == args.S > 0 /\ args.K > 0 /\ args.T > 0 /\ args.sigma > 0

\* C2, as stated: the pricer fails with an invalid-parameter error whenever
\* S <= 0 or K <= 0 or T <= 0 or sigma <= 0, and returns a (call, put) pair
\* whenever all four are strictly positive.
C2_ReturnsWheneverPositive ==
    pc = "pricer_done" =>
        /\ ~PricerArgsPositive =>
              result = Raise("ValueError", "black_scholes_option_price")
        /\ PricerArgsPositive =>
              Returned(result) /\ DOMAIN result = {"kind", "call", "put"}

\* C2, amended: the pricer fails with the invalid-parameter error, and with
\* no price computed, whenever S <= 0 or K <= 0 or T <= 0 or sigma <= 0; it
\* returns a (call, put) pair whenever all four are strictly positive and
\* sigma ** 2 does not overflow the number type.
C2_ReturnsUnlessOverflow ==
    pc = "pricer_done" =>
        /\ ~PricerArgsPositive =>
              result = Raise("ValueError", "black_scholes_option_price")
        /\ PricerArgsPositive /\ args.sigma <= SigmaMax =>
              Returned(result) /\ DOMAIN result = {"kind", "call", "put"}

\* C2, the case: the largest sigma whose square is representable is priced.
C2_PricedAtLargestSigma ==
    /\ pc = "pricer_done" /\ PricerArgsPositive /\ args.sigma = SigmaMax
    /\ Returned(result)

\* The two sides of put-call parity for the call just made, on the price grid.
ParityLhs == result.call - result.put
ParityRhs ==
    FMul(args.S * PriceUnit, Exp(-FMul(args.q, args.T)))
      - FMul(args.K * PriceUnit, Exp(-FMul(args.r, args.T)))
ParityScale ==
    Max(FMul(args.S * PriceUnit, Exp(-FMul(args.q, args.T))),
        FMul(args.K * PriceUnit, Exp(-FMul(args.r, args.T))))

SigmaInitDefault == 1000

\* scipy's newton without fprime is the secant method; its second point is
\* x0 perturbed by eps (1e-4 in scipy, here the smallest perturbation whose
\* effect on a price exceeds the resolution of the cdf table: 0.01).
NewtonEps == 100

\* tol = 1e-6: one unit of the model's resolution.
NewtonTol == 1

\* maxiter = 100
NewtonMaxIter == 100

\* The bracket of brentq, [1e-9, 5.0]; 1e-9 is the smallest positive sigma.
BrentLo == 1
BrentHi == 50000

\* iv = 1e-9, the fallback tiny volatility.
SigmaFloor == 1

\* diff(sigma): call_price - market_price, or the exception of the pricer.
DiffOf(res, market_price) ==
    IF Raised(res) THEN res
    ELSE [kind |-> "return", value |-> res.call - market_price]

diff(S, K, r, q, T, market_price, sigma) ==
    DiffOf(black_scholes_option_price(S, K, r, q, T, sigma), market_price)

\* The quote the loop is at.
CurK == args.strikes[locals.i]
CurPrice == args.market_call_prices[locals.i]
CurDiff(sigma) == diff(args.S, CurK, args.r, args.q, args.T, CurPrice, sigma)

\* An except clause that names ValueError as well.
CaughtByFallbackToo(exc) == exc \in {"RuntimeError", "OverflowError", "ValueError"}

\* except (RuntimeError, OverflowError): the exceptions of the primary solver
\* that lead to the fallback.
CaughtByFallback(exc) == exc \in {"RuntimeError", "OverflowError"}

\* The secant step: the zero of the line through (p0, q0) and (p1, q1),
\* saturated beyond the range of sigma.
SecantStep(p0, q0, p1, q1) == p1 - MulDivSat(q1, p1 - p0, q1 - q0, 2 * SigmaMax)

\* brentq's root in [lo, hi] with diff(lo) of sign slo and a sign change
\* inside, found by bisection down to one unit.
RECURSIVE Bisect(_, _, _)
BisectAt(lo, hi, slo, m, fm) ==
    IF fm = 0 THEN m
    ELSE IF Sgn(fm) = slo THEN Bisect(m, hi, slo)
    ELSE Bisect(lo, m, slo)

Bisect(lo, hi, slo) ==
    IF hi - lo <= 1 THEN hi
    ELSE BisectAt(lo, hi, slo, (lo + hi) \div 2,
                  CurDiff((lo + hi) \div 2).value)

\* brentq with the outcomes ea of diff(a) and eb of diff(b).
BrentqFrom(a, b, ea, eb) ==
    IF Raised(ea) THEN ea
    ELSE IF Raised(eb) THEN eb
    ELSE IF Sgn(ea.value) * Sgn(eb.value) > 0 THEN Raise("ValueError", "brentq")
    ELSE IF ea.value = 0 THEN [kind |-> "return", value |-> a]
    ELSE IF eb.value = 0 THEN [kind |-> "return", value |-> b]
    ELSE [kind |-> "return", value |-> Bisect(a, b, Sgn(ea.value))]

\* brentq(diff, a, b): "ValueError" when diff(a) and diff(b) have the same
\* sign, else a root; an exception of diff goes through.
brentq(a, b) == BrentqFrom(a, b, CurDiff(a), CurDiff(b))

\* vega = S * np.exp(-q * T) * norm.pdf(d1) * np.sqrt(T), d1 from iv.
Vega(S, K, r, q, T, iv) ==
    FMul(FMul(FMul(S, Exp(-FMul(q, T))), NormPdf(D1(S, K, r, q, T, iv))),
         Sqrt(T))

RECURSIVE SumSeq(_)
SumSeq(s) == IF s = <<>> THEN 0 ELSE s[1] + SumSeq(Tail(s))

\* sum(iv * vega for iv, vega in zip(iv_list, vega_list))
WeightedSum(ivs, vegas) ==
    SumSeq([k \in 1..Min(Len(ivs), Len(vegas)) |-> ivs[k] * vegas[k]])

\* The events of the quote the loop is at, in order.
NewLog == [order |-> <<>>, primary |-> "none", primary_iv |-> 0,
           bracket |-> "none", sigmas |-> {}]

(* for i in range(num_options): market_price = ...; K = strikes[i] *)
LoopEnter ==
    /\ pc = "iv_loop"
    /\ locals.i <= args.num_options
    /\ locals.i <= Len(args.market_call_prices)
    /\ locals.i <= Len(args.strikes)
    /\ pc' = "newton_start"
    /\ log' = NewLog
    /\ UNCHANGED <<args, result, locals, nt, rng, calls>>

(* market_call_prices[i] or strikes[i] past the end of the list *)
LoopIndexError ==
    /\ pc = "iv_loop"
    /\ locals.i <= args.num_options
    /\ (locals.i > Len(args.market_call_prices) \/ locals.i > Len(args.strikes))
    /\ result' = Raise("IndexError", "get_implied_volatility")
    /\ pc' = "iv_done"
    /\ UNCHANGED <<args, locals, nt, log, rng, calls>>

(* the loop has run num_options times *)
LoopExit ==
    /\ pc = "iv_loop"
    /\ locals.i > args.num_options
    /\ pc' = "iv_aggregate"
    /\ UNCHANGED <<args, result, locals, nt, log, rng, calls>>

\* Where an exception raised inside newton(...) goes: to the fallback when
\* the except clause names it, otherwise out of get_implied_volatility.
PrimaryRaises(lg, exc, sigmas) ==
    /\ log' = [lg EXCEPT !.primary = exc, !.sigmas = @ \cup sigmas,
                          !.order = IF CaughtByFallback(exc)
                                    THEN Append(@, "brentq") ELSE @]
    /\ IF CaughtByFallback(exc)
       THEN pc' = "brentq" /\ UNCHANGED result
       ELSE pc' = "iv_done" /\ result' = Raise(exc, "newton")

\* Where a value returned by newton(...) goes: "if iv <= 0: raise RuntimeError"
\* sends it to the fallback, otherwise it is the quote's iv.
PrimaryReturns(p) ==
    /\ log' = [log EXCEPT !.primary = "return", !.primary_iv = p,
                          !.order = IF p <= 0 /\ CaughtByFallback("RuntimeError")
                                    THEN Append(@, "brentq") ELSE @]
    /\ IF p <= 0
       THEN IF CaughtByFallback("RuntimeError")
            THEN pc' = "brentq" /\ UNCHANGED <<result, locals>>
            ELSE pc' = "iv_done" /\ result' = Raise("RuntimeError", "newton")
                 /\ UNCHANGED locals
       ELSE pc' = "append" /\ locals' = [locals EXCEPT !.iv = p] /\ UNCHANGED result

\* The two starting points of the secant method.
NewtonP0 == args.sigma_init
NewtonP1 == NewtonP0 + FMul(NewtonP0, NewtonEps) + NewtonEps

(* newton(diff, sigma_init, tol=1e-6, maxiter=100): diff at the two starting
   points, both evaluated without error *)
NewtonStart ==
    /\ pc = "newton_start"
    /\ \E e0 \in {CurDiff(NewtonP0)}, e1 \in {CurDiff(NewtonP1)} :
           /\ Returned(e0) /\ Returned(e1)
           /\ nt' = IF Abs(e1.value) < Abs(e0.value)
                    THEN [p0 |-> NewtonP1, q0 |-> e1.value,
                          p1 |-> NewtonP0, q1 |-> e0.value, itr |-> 0]
                    ELSE [p0 |-> NewtonP0, q0 |-> e0.value,
                          p1 |-> NewtonP1, q1 |-> e1.value, itr |-> 0]
    /\ log' = [log EXCEPT !.order = Append(@, "newton"),
                          !.sigmas = @ \cup {NewtonP0, NewtonP1}]
    /\ pc' = "newton_iter"
    /\ UNCHANGED <<args, result, locals, rng, calls>>

(* diff raises at a starting point *)
NewtonStartRaises ==
    /\ pc = "newton_start"
    /\ \E e0 \in {CurDiff(NewtonP0)}, e1 \in {CurDiff(NewtonP1)} :
           /\ Raised(e0) \/ Raised(e1)
           /\ LET exc == IF Raised(e0) THEN e0.exc ELSE e1.exc
                  evs == IF Raised(e0) THEN {NewtonP0} ELSE {NewtonP0, NewtonP1}
              IN  PrimaryRaises([log EXCEPT !.order = Append(@, "newton")],
                                exc, evs)
    /\ UNCHANGED <<args, locals, nt, rng, calls>>

\* The next point of the secant method (q1 # q0).
NewtonNext == SecantStep(nt.p0, nt.q0, nt.p1, nt.q1)

(* the loop of newton has run maxiter times: RuntimeError, failed to converge *)
NewtonMaxIterReached ==
    /\ pc = "newton_iter"
    /\ nt.itr >= NewtonMaxIter
    /\ PrimaryRaises(log, "RuntimeError", {})
    /\ UNCHANGED <<args, locals, nt, rng, calls>>

(* q1 == q0 at two different points: RuntimeError, tolerance reached *)
NewtonFlat ==
    /\ pc = "newton_iter"
    /\ nt.itr < NewtonMaxIter
    /\ nt.q1 = nt.q0 /\ nt.p1 # nt.p0
    /\ PrimaryRaises(log, "RuntimeError", {})
    /\ UNCHANGED <<args, locals, nt, rng, calls>>

(* newton returns: the next point is within tol of the last one *)
NewtonReturn ==
    /\ pc = "newton_iter"
    /\ nt.itr < NewtonMaxIter
    /\ IF nt.q1 = nt.q0
       THEN nt.p1 = nt.p0 /\ PrimaryReturns(TDiv(nt.p1 + nt.p0, 2))
       ELSE Abs(NewtonNext - nt.p1) <= NewtonTol /\ PrimaryReturns(NewtonNext)
    /\ UNCHANGED <<args, nt, rng, calls>>

(* one more iteration: diff at the next point, evaluated without error *)
NewtonStep ==
    /\ pc = "newton_iter"
    /\ nt.itr < NewtonMaxIter
    /\ nt.q1 # nt.q0
    /\ Abs(NewtonNext - nt.p1) > NewtonTol
    /\ \E e \in {CurDiff(NewtonNext)} :
           /\ Returned(e)
           /\ nt' = [p0 |-> nt.p1, q0 |-> nt.q1,
                     p1 |-> NewtonNext, q1 |-> e.value, itr |-> nt.itr + 1]
    /\ log' = [log EXCEPT !.sigmas = @ \cup {NewtonNext}]
    /\ UNCHANGED <<pc, args, result, locals, rng, calls>>

(* diff raises at the next point *)
NewtonStepRaises ==
    /\ pc = "newton_iter"
    /\ nt.itr < NewtonMaxIter
    /\ nt.q1 # nt.q0
    /\ Abs(NewtonNext - nt.p1) > NewtonTol
    /\ \E e \in {CurDiff(NewtonNext)} :
           /\ Raised(e)
           /\ PrimaryRaises(log, e.exc, {NewtonNext})
    /\ UNCHANGED <<args, locals, nt, rng, calls>>

(* iv = brentq(diff, 1e-9, 5.0) returns a root *)
BrentqRoot ==
    /\ pc = "brentq"
    /\ \E res \in {brentq(BrentLo, BrentHi)} :
           /\ Returned(res)
           /\ locals' = [locals EXCEPT !.iv = res.value]
    /\ log' = [log EXCEPT !.bracket = "root", !.sigmas = @ \cup {BrentLo, BrentHi}]
    /\ pc' = "append"
    /\ UNCHANGED <<args, result, nt, rng, calls>>

(* except ValueError: iv = 1e-9 *)
BrentqNoSignChange ==
    /\ pc = "brentq"
    /\ \E res \in {brentq(BrentLo, BrentHi)} :
           Raised(res) /\ res.exc = "ValueError"
    /\ locals' = [locals EXCEPT !.iv = SigmaFloor]
    /\ log' = [log EXCEPT !.bracket = "nosign", !.order = Append(@, "floor"),
                          !.sigmas = @ \cup {BrentLo, BrentHi}]
    /\ pc' = "append"
    /\ UNCHANGED <<args, result, nt, rng, calls>>

(* iv_list.append(iv); d1 = ...; vega = ...; vega_list.append(vega) *)
AppendVega ==
    /\ pc = "append"
    /\ locals' = [locals EXCEPT
                  !.iv_list = Append(@, locals.iv),
                  !.vega_list = Append(@, Vega(args.S, CurK, args.r, args.q,
                                               args.T, locals.iv)),
                  !.i = @ + 1]
    /\ pc' = "iv_loop"
    /\ UNCHANGED <<args, result, nt, log, rng, calls>>

(* sum(...) / sum(vega_list) with both lists empty: the int 0 / 0 *)
AggregateEmpty ==
    /\ pc = "iv_aggregate"
    /\ locals.vega_list = <<>>
    /\ result' = Raise("ZeroDivisionError", "get_implied_volatility")
    /\ pc' = "iv_done"
    /\ UNCHANGED <<args, locals, nt, log, rng, calls>>

(* sum(...) / sum(vega_list) with np.float64 vegas that sum to 0.0: numpy
   divides 0.0 by 0.0 into nan, with a warning and no exception *)
AggregateZeroWeights ==
    /\ pc = "iv_aggregate"
    /\ locals.vega_list # <<>>
    /\ SumSeq(locals.vega_list) = 0
    /\ result' = [kind |-> "return", value |-> 0, nan |-> TRUE]
    /\ pc' = "iv_done"
    /\ UNCHANGED <<args, locals, nt, log, rng, calls>>

(* return iv_vega_weighted *)
AggregateReturn ==
    /\ pc = "iv_aggregate"
    /\ SumSeq(locals.vega_list) # 0
    /\ result' = [kind |-> "return", nan |-> FALSE,
                  value |-> TDiv(WeightedSum(locals.iv_list, locals.vega_list),
                                 SumSeq(locals.vega_list))]
    /\ pc' = "iv_done"
    /\ UNCHANGED <<args, locals, nt, log, rng, calls>>

(***************************************************************************)
(* Specification of one call of get_implied_volatility                     *)
(***************************************************************************)
\* Longest calibration set explored.
MaxQuotes == 2

\* Quotes <<strike, market price>> in cents, with S = 100.00, r = 0.04, q = 0,
\* T = 1: a call priced under its lower bound S - K e^(-rT); a call at an
\* implied volatility of 0.2; calls priced above the spot; calls at implied
\* volatilities of about 0.54 and 0.21.
IVQuotes == {<<9000, 500>>, <<10000, 993>>, <<9000, 15000>>, <<10000, 12000>>,
             <<8500, 2980>>, <<12000, 326>>}

IVQuoteSeqs == UNION {[1..n -> IVQuotes] : n \in 0..MaxQuotes}

\* time_to_expiry = max(days / 365, 0.0) of get_options_data: a year, or 0
\* on the expiry date.
IVT == {0, 10000}

InitIV ==
    /\ pc = "iv_loop"
    /\ \E qs \in IVQuoteSeqs, T \in IVT, n \in 0..MaxQuotes :
         /\ n <= Len(qs) + 1
         /\ args = [market_call_prices |-> [k \in 1..Len(qs) |-> qs[k][2] * PriceUnit],
                    strikes |-> [k \in 1..Len(qs) |-> qs[k][1]],
                    S |-> 10000, r |-> 400, q |-> 0, T |-> T,
                    num_options |-> n, sigma_init |-> SigmaInitDefault]
    /\ result = Null
    /\ locals = [i |-> 1, iv |-> 0, iv_list |-> <<>>, vega_list |-> <<>>]
    /\ nt = Null
    /\ log = NewLog
    /\ rng = Null /\ calls = Null

NextIV ==
    \/ LoopEnter \/ LoopIndexError \/ LoopExit
    \/ NewtonStart \/ NewtonStartRaises
    \/ NewtonMaxIterReached \/ NewtonFlat \/ NewtonReturn
    \/ NewtonStep \/ NewtonStepRaises
    \/ BrentqRoot \/ BrentqNoSignChange
    \/ AppendVega
    \/ AggregateEmpty \/ AggregateZeroWeights \/ AggregateReturn

SpecIV == InitIV /\ [][NextIV]_vars

(***************************************************************************)
(* Properties of get_implied_volatility                                    *)
(***************************************************************************)
\* The call is well formed: a valid market and a quote for every option.
IVArgsValid ==
    /\ args.S > 0 /\ args.T > 0
    /\ args.num_options <= Len(args.market_call_prices)
    /\ args.num_options <= Len(args.strikes)
    /\ \A k \in 1..Len(args.strikes) : args.strikes[k] > 0

\* C1, as stated: no quote makes get_implied_volatility raise; every quote
\* of the calibration set is assigned a sigma and the loop goes on to the
\* next one, so that the call ends with one sigma per quote.
C1_EveryQuoteAssigned ==
    pc = "iv_done" /\ IVArgsValid =>
        /\ Len(locals.iv_list) = args.num_options
        /\ ~(Raised(result) /\ result.at = "newton")

\* C3, as stated: when the vega weights sum to zero, the call fails with an
\* error instead of returning a value.
C3_ZeroWeightsFail ==
    pc = "iv_done" /\ Len(locals.vega_list) = args.num_options
                   /\ SumSeq(locals.vega_list) = 0 =>
        Raised(result)

\* The stages that ran for the quote the loop is at.
StagesRun == {log.order[k] : k \in 1..Len(log.order)}

C11_PricerSigmaPositive ==
    IVArgsValid =>
        /\ \A s \in log.sigmas : s > 0
        /\ \A k \in 1..Len(locals.iv_list) : locals.iv_list[k] > 0
        /\ pc = "append" => locals.iv > 0

(***************************************************************************)
(* gbm_simulated_paths.py: gbm_stock_path                                  *)
(***************************************************************************)
\* np.random's generator, the one state the whole process shares: a linear
\* congruential generator of full period.
RngStates == 0..7
RngNext(x) == (5 * x + 3) % Cardinality(RngStates)

\* The standard normal variate drawn at state x, one of -1, 0, 1.
RngNormal(x) == ((x % 3) - 1) * ONE

\* The state of the generator k draws after x.
RECURSIVE RngAfter(_, _)
RngAfter(x, k) == IF k <= 0 THEN x ELSE RngAfter(RngNext(x), k - 1)

\* np.random.normal(0, 1, size=(rows, cols)) at state x: the entries are drawn
\* one after the other, row by row.
NormalMatrix(x, rows, cols) ==
    [i \in 1..rows |->
        [j \in 1..cols |-> RngNormal(RngAfter(x, (i - 1) * cols + j))]]

\* N = int(steps_per_year * T): int() drops the fractional part.
Steps(steps_per_year, T) == TDiv(steps_per_year * T, ONE)

\* dt = 1 / steps_per_year
StepSize(steps_per_year) == TDiv(ONE, steps_per_year)

\* increments = (r - 0.5 * sigma**2) * dt + sigma * np.sqrt(dt) * Z
Increments(r, sigma, dt, Z) ==
    [i \in DOMAIN Z |->
        [j \in DOMAIN Z[i] |->
            FMul(r - TDiv(FMul(sigma, sigma), 2), dt)
              + FMul(FMul(sigma, Sqrt(dt)), Z[i][j])]]

\* The running totals of s from position k on, acc being the total before k.
RECURSIVE CumSumFrom(_, _, _)
CumSumFrom(s, k, acc) ==
    IF k > Len(s) THEN <<>>
    ELSE <<acc + s[k]>> \o CumSumFrom(s, k + 1, acc + s[k])

\* A cumsum that returns its argument as it is.
NoCumSum(s) == s

\* np.cumsum(s) of a one-dimensional s.
CumSum(s) == CumSumFrom(s, 1, 0)

\* log_paths = np.cumsum(increments, axis=1), then np.hstack of a column of
\* zeros and log_paths.
LogPaths(increments) ==
    [i \in DOMAIN increments |-> <<0>> \o CumSum(increments[i])]

\* prices = S0 * np.exp(log_paths)
PathPrices(S0, log_paths) ==
    [i \in DOMAIN log_paths |->
        [j \in DOMAIN log_paths[i] |-> FMul(S0, Exp(log_paths[i][j]))]]

\* What a call leaves behind: its outcome, its local variables at the end,
\* and the state of the generator.
GbmOutcome(res, N, dt, Z, increments, log_paths, x) ==
    [result |-> res,
     locals |-> [N |-> N, dt |-> dt, Z |-> Z, increments |-> increments,
                 log_paths |-> log_paths],
     rng |-> x]

GbmFailure(exc, at, x) == [result |-> Raise(exc, at), locals |-> Null, rng |-> x]

\* The function from the cumulative sums on.
GbmFromLogPaths(S0, N, dt, Z, increments, log_paths, x) ==
    GbmOutcome([kind |-> "return", prices |-> PathPrices(S0, log_paths)],
               N, dt, Z, increments, log_paths, x)

\* The function from the increments on.
GbmFromIncrements(S0, N, dt, Z, increments, x) ==
    GbmFromLogPaths(S0, N, dt, Z, increments, LogPaths(increments), x)

\* The function from the shocks on.
GbmFromShocks(S0, r, sigma, N, dt, Z, x) ==
    GbmFromIncrements(S0, N, dt, Z, Increments(r, sigma, dt, Z), x)

\* gbm_stock_path(S0, r, sigma, T, steps_per_year, n_paths), called with the
\* process's generator at state x.
gbm_stock_path(S0, r, sigma, T, steps_per_year, n_paths, x) ==
    IF S0 <= 0 \/ sigma <= 0 \/ T <= 0
    THEN GbmFailure("ValueError", "gbm_stock_path", x)
    ELSE IF steps_per_year = 0
    THEN GbmFailure("ZeroDivisionError", "gbm_stock_path", x)
    ELSE IF n_paths < 0 \/ Steps(steps_per_year, T) < 0
    THEN GbmFailure("ValueError", "np.random.normal", x)
    ELSE IF sigma > SigmaMax
    THEN GbmFailure("OverflowError", "gbm_stock_path",
                    RngAfter(x, n_paths * Steps(steps_per_year, T)))
    ELSE GbmFromShocks(S0, r, sigma, Steps(steps_per_year, T),
                       StepSize(steps_per_year),
                       NormalMatrix(x, n_paths, Steps(steps_per_year, T)),
                       RngAfter(x, n_paths * Steps(steps_per_year, T)))

(***************************************************************************)
(* Specification of a process that calls gbm_stock_path                    *)
(***************************************************************************)
\* Calls of the simulator in one run of the process.
MaxCalls == 2

GbmArgs == [S0 : {0, 10000}, r : {400}, sigma : {0, 2000, SigmaMax + 1},
            T : {0, 5000, 9000, 15000}, steps_per_year : {-1, 0, 1, 3},
            n_paths : {-1, 0, 1, 2}]

InitGBM ==
    /\ pc = "gbm_ready"
    /\ args \in GbmArgs
    /\ rng \in RngStates
    /\ calls = <<>>
    /\ result = Null /\ locals = Null
    /\ nt = Null /\ log = Null

\* The process calls gbm_stock_path with its arguments.
GbmCall ==
    /\ pc \in {"gbm_ready", "gbm_done"}
    /\ Len(calls) < MaxCalls
    /\ \E out \in {gbm_stock_path(args.S0, args.r, args.sigma, args.T,
                                  args.steps_per_year, args.n_paths, rng)} :
         /\ result' = out.result
         /\ locals' = out.locals
         /\ rng' = out.rng
         /\ calls' = Append(calls, [args |-> args, result |-> out.result])
    /\ pc' = "gbm_done"
    /\ UNCHANGED <<args, nt, log>>

\* Some other code of the process draws a number from np.random.
OtherDraw ==
    /\ pc \in {"gbm_ready", "gbm_done"}
    /\ rng' = RngNext(rng)
    /\ UNCHANGED <<pc, args, result, locals, nt, log, calls>>

NextGBM == GbmCall \/ OtherDraw

SpecGBM == InitGBM /\ [][NextGBM]_vars

(***************************************************************************)
(* Properties of gbm_stock_path                                            *)
(***************************************************************************)
\* C4, as stated: two calls of the simulator with identical arguments return
\* identical matrices, whatever is drawn between them.
C4_SameArgsSameMatrix ==
    \A i, j \in 1..Len(calls) :
        calls[i].args = calls[j].args => calls[i].result = calls[j].result

\* C5, as stated: the simulator fails with its invalid-parameter error
\* whenever S0 <= 0, sigma <= 0, T <= 0, steps_per_year <= 0 or n_paths < 1.
C5_RejectsInvalid ==
    pc = "gbm_done"
      /\ (args.S0 <= 0 \/ args.sigma <= 0 \/ args.T <= 0
            \/ args.steps_per_year <= 0 \/ args.n_paths < 1) =>
        result = Raise("ValueError", "gbm_stock_path")

GbmArgsValid ==
    /\ args.S0 > 0 /\ args.sigma > 0 /\ args.T > 0
    /\ args.steps_per_year > 0 /\ args.n_paths >= 1

\* The sum of the first j entries of s.
SumFirst(s, j) == SumSeq(SubSeq(s, 1, j))

\* C6: for every valid input the returned matrix has n_paths rows and N + 1
\* columns, column 0 of every row is S0 exactly, and column j >= 1 of a row
\* is S0 times exp of the sum of the row's first j log-increments.
C6_PathMatrix ==
    pc = "gbm_done" /\ GbmArgsValid /\ Returned(result) =>
        /\ Len(result.prices) = args.n_paths
        /\ Len(locals.increments) = args.n_paths
        /\ \A i \in 1..args.n_paths :
             /\ Len(result.prices[i]) = locals.N + 1
             /\ Len(locals.increments[i]) = locals.N
             /\ result.prices[i][1] = args.S0
             /\ \A j \in 1..locals.N :
                  result.prices[i][j + 1] =
                      FMul(args.S0, Exp(SumFirst(locals.increments[i], j)))

\* C6, the case: two paths of several steps that differ and have left S0.
C6_TwoPathsSeveralSteps ==
    /\ pc = "gbm_done" /\ GbmArgsValid /\ Returned(result)
    /\ args.n_paths = 2 /\ locals.N >= 2
    /\ result.prices[1] # result.prices[2]
    /\ result.prices[1][3] # result.prices[1][2]
    /\ result.prices[1][2] # args.S0

\* C12, as stated: for every steps_per_year > 0 and T > 0 the number of
\* steps N is steps_per_year * T rounded to the nearest integer, so that N
\* is never further than one half from the product, also when the product's
\* fractional part is 0.5 or more and when the product is below 1.
C12_StepsNearestInteger ==
    pc = "gbm_done" /\ GbmArgsValid /\ Returned(result) =>
        2 * Abs(locals.N * ONE - args.steps_per_year * args.T) <= ONE

(***************************************************************************)
(* pnl.py: calculate_pnl_present_value                                     *)
(***************************************************************************)
\* call_pnl_pv, put_pnl_pv from the final price and the discount factor.
PnlPresentValue(S_T, K, discount, call_premium, put_premium) ==
    [kind |-> "return",
     call_pnl_pv |-> FMul(Max(S_T - K, 0), discount) - call_premium,
     put_pnl_pv  |-> FMul(Max(K - S_T, 0), discount) - put_premium]

\* calculate_pnl_present_value(S_t, K, r, T, call_premium, put_premium);
\* S_t[-1] of an empty list raises IndexError.
calculate_pnl_present_value(S_t, K, r, T, call_premium, put_premium) ==
    IF S_t = <<>>
    THEN Raise("IndexError", "calculate_pnl_present_value")
    ELSE PnlPresentValue(S_t[Len(S_t)], K, Exp(-FMul(r, T)),
                         call_premium, put_premium)

(***************************************************************************)
(* Specification of one call of calculate_pnl_present_value                *)
(***************************************************************************)
PnlArgs == [S_t : {<<>>, <<10000>>, <<10000, 12000>>, <<10000, 9000, 8000>>},
            K : {-500, 0, 10000}, r : {0, 400}, T : {-10000, 0, 10000},
            call_premium : {0, 500}, put_premium : {300}]

InitPnL ==
    /\ pc = "pnl_call"
    /\ args \in PnlArgs
    /\ result = Null /\ locals = Null
    /\ nt = Null /\ log = Null /\ rng = Null /\ calls = Null

\* The caller invokes calculate_pnl_present_value.
PnlCall ==
    /\ pc = "pnl_call"
    /\ result' = calculate_pnl_present_value(args.S_t, args.K, args.r, args.T,
                                             args.call_premium, args.put_premium)
    /\ pc' = "pnl_done"
    /\ UNCHANGED <<args, locals, nt, log, rng, calls>>

NextPnL == PnlCall

SpecPnL == InitPnL /\ [][NextPnL]_vars

\* C7, as stated: the PnL computation fails when K <= 0 or T <= 0 or the
\* price sequence is empty, and produces no PnL value in these cases.
C7_RejectsInvalid ==
    pc = "pnl_done" /\ (args.K <= 0 \/ args.T <= 0 \/ args.S_t = <<>>) =>
        Raised(result)

(***************************************************************************)
(* cli/main.py: main, from the fair prices to the cumulative PnL           *)
(***************************************************************************)
\* steps_per_year = 252 of main, scaled down to paths of a few steps.
MainStepsPerYear == 2

\* S_T = S_paths[:, -1] with the rows in the opposite order.
TerminalPricesReversed(S_paths) ==
    [i \in DOMAIN S_paths |->
        S_paths[Len(S_paths) - i + 1][Len(S_paths[Len(S_paths) - i + 1])]]

\* S_T = S_paths[:, -1]
TerminalPrices(S_paths) ==
    [i \in DOMAIN S_paths |-> S_paths[i][Len(S_paths[i])]]

\* (np.maximum(S_T - K, 0) * discount) - C
CallPnl(S_T, K, discount, C) ==
    [i \in DOMAIN S_T |-> FMul(Max(S_T[i] - K, 0), discount) - C]

\* (np.maximum(K - S_T, 0) * discount) - P
PutPnl(S_T, K, discount, P) ==
    [i \in DOMAIN S_T |-> FMul(Max(K - S_T[i], 0), discount) - P]

MainLocals ==
    [call_price_bs |-> 0, put_price_bs |-> 0, S_paths |-> <<>>, S_T |-> <<>>,
     discount |-> 0, call_pnl |-> <<>>, put_pnl |-> <<>>,
     cumulative_call_pnl |-> <<>>, cumulative_put_pnl |-> <<>>]

MainArgs == [S : {10000}, K : {0, 9500, 10500}, r : {400}, q : {0},
             T : {0, 5000, 10000}, sigma : {2000}, C : {500}, P : {300},
             num_sims : {-1, 0, 1, 2, 3}]

InitMain ==
    /\ pc = "main_price"
    /\ args \in MainArgs
    /\ rng \in RngStates
    /\ result = Null
    /\ locals = MainLocals
    /\ nt = Null /\ log = Null /\ calls = Null

(* call_price_bs, put_price_bs = black_scholes_option_price(S, K, r, q, T, sigma) *)
MainPrice ==
    /\ pc = "main_price"
    /\ \E out \in {black_scholes_option_price(args.S, args.K, args.r, args.q,
                                              args.T, args.sigma)} :
         IF Raised(out)
         THEN result' = out /\ pc' = "main_done" /\ UNCHANGED locals
         ELSE /\ locals' = [locals EXCEPT !.call_price_bs = out.call,
                                          !.put_price_bs = out.put]
              /\ pc' = "main_simulate"
              /\ UNCHANGED result
    /\ UNCHANGED <<args, nt, log, rng, calls>>

(* S_paths = gbm_stock_path(S, r, sigma, T, steps_per_year, n_paths=num_sims);
   S_T = S_paths[:, -1] *)
MainSimulate ==
    /\ pc = "main_simulate"
    /\ \E out \in {gbm_stock_path(args.S, args.r, args.sigma, args.T,
                                  MainStepsPerYear, args.num_sims, rng)} :
         /\ rng' = out.rng
         /\ IF Raised(out.result)
            THEN result' = out.result /\ pc' = "main_done" /\ UNCHANGED locals
            ELSE /\ locals' = [locals EXCEPT
                                 !.S_paths = out.result.prices,
                                 !.S_T = TerminalPrices(out.result.prices)]
                 /\ pc' = "main_pnl"
                 /\ UNCHANGED result
    /\ UNCHANGED <<args, nt, log, calls>>

(* discount = np.exp(-r * T); call_pnl = ...; put_pnl = ...;
   cumulative_call_pnl = np.cumsum(call_pnl); cumulative_put_pnl = ... *)
MainPnL ==
    /\ pc = "main_pnl"
    /\ \E discount \in {Exp(-FMul(args.r, args.T))} :
       \E call_pnl \in {CallPnl(locals.S_T, args.K, discount, args.C)},
          put_pnl \in {PutPnl(locals.S_T, args.K, discount, args.P)} :
         /\ locals' = [locals EXCEPT
                         !.discount = discount,
                         !.call_pnl = call_pnl,
                         !.put_pnl = put_pnl,
                         !.cumulative_call_pnl = CumSum(call_pnl),
                         !.cumulative_put_pnl = CumSum(put_pnl)]
         /\ result' = [kind |-> "return",
                       cumulative_call_pnl |-> CumSum(call_pnl),
                       cumulative_put_pnl |-> CumSum(put_pnl)]
    /\ pc' = "main_done"
    /\ UNCHANGED <<args, nt, log, rng, calls>>

NextMain == MainPrice \/ MainSimulate \/ MainPnL

SpecMain == InitMain /\ [][NextMain]_vars

(***************************************************************************)
(* Properties of the PnL of main                                           *)
(***************************************************************************)
\* s is the running sum of p, in the order of p.
RunningSumOf(s, p) ==
    /\ Len(s) = Len(p)
    /\ \A i \in 1..Len(p) : s[i] = (IF i = 1 THEN 0 ELSE s[i - 1]) + p[i]

\* C8: the cumulative PnL has the length of the per-path PnL and is its
\* running sum in the order of the paths, the PnL at position i being
\* computed from the terminal price of row i of the path matrix.
C8_CumulativeInPathOrder ==
    pc = "main_done" /\ Returned(result) =>
        /\ Len(locals.call_pnl) = Len(locals.S_paths)
        /\ Len(locals.put_pnl) = Len(locals.S_paths)
        /\ \A i \in 1..Len(locals.S_paths) :
             /\ locals.call_pnl[i] =
                  FMul(Max(locals.S_paths[i][Len(locals.S_paths[i])] - args.K, 0),
                       Exp(-FMul(args.r, args.T))) - args.C
             /\ locals.put_pnl[i] =
                  FMul(Max(args.K - locals.S_paths[i][Len(locals.S_paths[i])], 0),
                       Exp(-FMul(args.r, args.T))) - args.P
        /\ RunningSumOf(result.cumulative_call_pnl, locals.call_pnl)
        /\ RunningSumOf(result.cumulative_put_pnl, locals.put_pnl)

\* C8, the case: three paths whose PnL differ from one path to the next.
C8_ThreeDifferentPaths ==
    /\ pc = "main_done" /\ Returned(result)
    /\ Len(locals.S_paths) = 3
    /\ locals.call_pnl[1] # locals.call_pnl[3]
    /\ locals.put_pnl[1] # locals.put_pnl[2]
    /\ result.cumulative_call_pnl[3] # result.cumulative_call_pnl[2]

====
